---- MODULE Spec2Model ----
(***************************************************************************)
(* The phone-number lease pool of src/phonemanager.py: PhoneManager (a     *)
(* static list of numbers) and HeroSMSPhoneManager (a pool refilled from   *)
(* the HeroSMS provisioner).  Every public method runs its table work      *)
(* inside `with self._condition`, so one loop iteration of acquire_phone   *)
(* and one call of release_phone are single atomic steps; get_sms_code     *)
(* holds the lock for its lookup only, and each of its polls is a step.    *)
(***************************************************************************)
EXTENDS Integers, Sequences, FiniteSets, TLC

\* ---------------------------------------------------------------- bounds
Workers == {"w1", "w2"}            \* thread names, used as requester ids
Catalog == <<"p1", "p2">>          \* the numbers the provisioner sells, in the
                                   \* order of their first issue
Numbers == {Catalog[i] : i \in DOMAIN Catalog}
UnknownNumber == "p0"              \* a number that is never in the table
StaticPhones == <<"p1", "p2">>     \* the phone list given to PhoneManager

WaitBudgets == {0, 1}              \* max_wait_seconds a caller passes, in clock ticks
ActivationIds == {7}               \* activation ids the provisioner hands out

MaxTime == 2                       \* the clock runs 0..MaxTime
Timeout == 1                       \* self._timeout (the timeout_seconds argument), in clock ticks
MaxLeases == 2                     \* leases granted in one run of the refilled pool
MaxStaticLeases == 5               \* leases granted in one run of the static pool

\* ------------------------------------------------------ program constants
None == "None"                     \* Python None for a string field
NoTime == 0 - 1                    \* Python None for locked_at
NoActivation == 0                  \* Python None for activation_id
PoolSizes == {1, 2}                \* values of the pool_size argument
MaxUsesChoices == {1, 2, 3}        \* values of the max_uses argument
HardcodedMaxUses == 2              \* the literal 2 of PhoneManager's scans
STATUS_READY == 1
STATUS_COMPLETE == 6
STATUS_CANCEL == 8

VARIABLES
    phones,           \* self._phones: insertion-ordered table, a sequence of PhoneInfo
    max_uses,         \* self.max_uses
    pool_size,        \* self.pool_size
    now,              \* the wall clock (time.time() / datetime.now())
    total_acquired,   \* self._total_acquired
    total_released,   \* self._total_released
    pc,               \* per thread: "idle", "waiting" inside acquire_phone's loop,
                      \* or "polling" inside get_sms_code's loop
    end_time,         \* per thread: end_time of its acquire_phone call
    frame,            \* per thread: the locals of its get_sms_code call
    leases,           \* history: per number, the requesters whose lease is still open
    closed,           \* history: how leases ended (see NoneClosed)
    flow,             \* per thread: the locals of its main_flow call (see NoFlow)
    last              \* history: the method that made the last step, what it
                      \* returned and what it asked of the provisioner

vars == <<phones, max_uses, pool_size, now, total_acquired,
          total_released, pc, end_time, frame, leases, closed, flow, last>>

\* --------------------------------------------------------------- PhoneInfo
\* A record that counts the purchase of the number as its first use.
PhoneInfo_counts_purchase(n, act) ==
    [number |-> n, used_count |-> 1, locked_by |-> None,
     locked_at |-> NoTime, activation_id |-> act]

PhoneInfo(n, act) ==
    [number |-> n, used_count |-> 0, locked_by |-> None,
     locked_at |-> NoTime, activation_id |-> act]

InTable(ph, n) == \E i \in DOMAIN ph : ph[i].number = n

IndexOf(ph, n) == CHOOSE i \in DOMAIN ph : ph[i].number = n

\* self._phones[n] = rec : a new key is appended, an existing key keeps its
\* place in the iteration order and its value is replaced.
DictSet(ph, n, rec) ==
    IF InTable(ph, n)
    THEN [i \in DOMAIN ph |-> IF ph[i].number = n THEN rec ELSE ph[i]]
    ELSE Append(ph, rec)

\* ------------------------------------------------- PhoneManager's helpers
ScanEligible(p) == ~(p.used_count >= HardcodedMaxUses) /\ p.locked_by = None

\* A scan that forgets the `used_count >= 2: continue` test.
find_first_unlocked(ph) ==
    IF \E i \in DOMAIN ph : ph[i].locked_by = None
    THEN ph[CHOOSE i \in DOMAIN ph :
                /\ ph[i].locked_by = None
                /\ \A j \in DOMAIN ph : j < i => ph[j].locked_by # None].number
    ELSE None

find_available_phone(ph) ==
    IF \E i \in DOMAIN ph : ScanEligible(ph[i])
    THEN ph[CHOOSE i \in DOMAIN ph :
                /\ ScanEligible(ph[i])
                /\ \A j \in DOMAIN ph : j < i => ~ScanEligible(ph[j])].number
    ELSE None

\* A sweep that already frees a lease whose age equals the timeout.
TimedOut_at_timeout(p, tnow) ==
    /\ ~(p.used_count >= HardcodedMaxUses)
    /\ p.locked_by # None /\ p.locked_at # NoTime
    /\ tnow - p.locked_at >= Timeout

TimedOut(p, tnow) ==
    /\ ~(p.used_count >= HardcodedMaxUses)
    /\ p.locked_by # None /\ p.locked_at # NoTime
    /\ tnow - p.locked_at > Timeout

\* A sweep that counts the use but leaves the phone with its holder.
ForceRelease_keeps_holder(p) ==
    [p EXCEPT !.used_count = @ + 1]

ForceRelease(p) ==
    [p EXCEPT !.locked_by = None, !.locked_at = NoTime, !.used_count = @ + 1]

release_timed_out_phones(ph, tnow) ==
    [i \in DOMAIN ph |-> IF TimedOut(ph[i], tnow) THEN ForceRelease(ph[i]) ELSE ph[i]]

\* PhoneManager.get_stats, inherited by HeroSMSPhoneManager: the counts it
\* takes of the table under the lock.
get_stats(ph, acquired, released) ==
    [total_phones |-> Len(ph),
     available |-> Cardinality({i \in DOMAIN ph :
                       ph[i].used_count < HardcodedMaxUses /\ ph[i].locked_by = None}),
     locked |-> Cardinality({i \in DOMAIN ph : ph[i].locked_by # None}),
     exhausted |-> Cardinality({i \in DOMAIN ph : ph[i].used_count >= HardcodedMaxUses}),
     total_acquired |-> acquired,
     total_released |-> released]

\* ------------------------------------------- HeroSMSPhoneManager._refill_pool
\* A count that takes leased phones for available ones.
available_count_ignores_locks(ph, mu) ==
    Cardinality({i \in DOMAIN ph : ph[i].used_count < mu})

available_count(ph, mu) ==
    Cardinality({i \in DOMAIN ph : ph[i].used_count < mu /\ ph[i].locked_by = None})

\* A refill that counts every phone of the table, leased or exhausted.
needed_counts_all(ph, mu, size) == size - Len(ph)

needed(ph, mu, size) == size - available_count(ph, mu)

\* One reply of hero_client.get_number_v2: a number, an error result, or an
\* exception.
ReplyOk(n, a) == [status |-> "success", phoneNumber |-> n, activationId |-> a]
ReplyError == [status |-> "error", phoneNumber |-> None, activationId |-> NoActivation]
ReplyRaise == [status |-> "raise", phoneNumber |-> None, activationId |-> NoActivation]

\* A refill without the try/except: the exception leaves _refill_pool.
on_fetch_exception_propagates(r) == [r EXCEPT !.raised = TRUE]

\* `except Exception as e: print(...); break` around get_number_v2: the
\* exception is swallowed and the loop ends.
on_fetch_exception(r) == [r EXCEPT !.raised = FALSE]

\* The `for i in range(needed)` loop: r is the state carried through the
\* loop, replies[i] the provisioner's answer to the i-th request.
RECURSIVE RefillLoop(_, _, _, _)
RefillLoop(r, replies, i, n) ==
    IF i > n THEN r
    ELSE IF replies[i].status = "success"
         THEN RefillLoop(
                [phones |-> DictSet(r.phones, replies[i].phoneNumber,
                                    PhoneInfo(replies[i].phoneNumber,
                                              replies[i].activationId)),
                 requests |-> r.requests + 1,
                 added |-> r.added + 1,
                 raised |-> FALSE],
                replies, i + 1, n)
         ELSE IF replies[i].status = "raise"
              THEN on_fetch_exception([r EXCEPT !.requests = @ + 1])
              ELSE [r EXCEPT !.requests = @ + 1]        \* error result: break

refill_pool(ph, mu, size, replies) ==
    LET r0 == [phones |-> ph, requests |-> 0, added |-> 0, raised |-> FALSE]
    IN  IF needed(ph, mu, size) <= 0 THEN r0
        ELSE RefillLoop(r0, replies, 1, needed(ph, mu, size))

\* ------------------------------------------------------- the provisioner
\* A number the provisioner issues is one it has issued before, or a new one;
\* new numbers are named in the order of the catalog cat.
TableNumbers(ph) == {ph[i].number : i \in DOMAIN ph}

Issuable(known, cat) ==
    known \cup {cat[i] : i \in {j \in DOMAIN cat :
                                  /\ cat[j] \notin known
                                  /\ \A k \in 1..(j - 1) : cat[k] \in known}}

RECURSIVE IssueSeqs(_, _, _)
IssueSeqs(known, cat, k) ==
    IF k = 0 THEN {<<>>}
    ELSE UNION { { <<ReplyOk(m, a)>> \o s : s \in IssueSeqs(known \cup {m}, cat, k - 1),
                                            a \in ActivationIds }
                 : m \in Issuable(known, cat) }

\* The replies the provisioner can give to one refill run of n requests: some
\* numbers, then (if fewer than n) a failure.
Replies(ph, cat, n) ==
    IF n <= 0 THEN {<<>>}
    ELSE UNION { { s \o tail : s \in IssueSeqs(TableNumbers(ph), cat, k),
                               tail \in IF k < n THEN {<<ReplyError>>, <<ReplyRaise>>}
                                                 ELSE {<<>>} }
                 : k \in 0..n }

\* A status push without the try/except: the exception leaves the method.
status_push_propagates(reply) == reply = "raise"

\* A status push that treats every reply but success as fatal.
status_push_requires_success(reply) == reply # "ok"

\* try: set_status(...) except Exception: print(...) -- whether the exception
\* of a status push leaves the method.
status_push_raises(reply) == FALSE

StatusReplies == {"ok", "error", "raise"}

\* ------------------------------------------------------------ history
\* locked_calls counts the provisioner calls (get_number_v2, set_status) the
\* step made inside its `with self._condition:` block; notified says whether
\* the step called self._condition.notify_all(); prior says, for a
\* release_phone call, how the caller's latest lease of the number had ended
\* before the call ("released", "reclaimed", or None if it holds one or never
\* did); lookup says, for a get_sms_code call, what its lookup under the lock
\* found ("unknown": not in the table, "bare": no activation_id, "found").
Call(op) ==
    [op |-> op, ret |-> None, requests |-> 0, added |-> 0,
     status_code |-> 0, status_reply |-> None, locked_calls |-> 0,
     code |-> None, notified |-> FALSE, prior |-> None, lookup |-> None]

\* The locals of get_sms_code: the activation_id read under the lock, the
\* loop variable attempt, the max_retries argument, and (history) the number
\* of get_status calls made so far.
NoFrame == [activation_id |-> NoActivation, attempt |-> 0, max_retries |-> 0, polls |-> 0]

Waiting == {t \in Workers : pc[t] = "waiting"}

\* The holders whose lease the sweep of table ph ends, per number.
Reclaimed(ph, tnow, n) ==
    {ph[i].locked_by : i \in {j \in DOMAIN ph : ph[j].number = n /\ TimedOut(ph[j], tnow)}}

\* The locals of AmazonCreator.main_flow: at is the position in the method;
\* phone and phone_success are its variables of that name; (history) verified
\* says whether add_mobile_number returned 'success', codes and releases count
\* the get_sms_code and release_phone calls made, released holds the
\* arguments of the release_phone call.
NoRelease == [number |-> None, by |-> None, success |-> FALSE]

NoFlow ==
    [at |-> "start", phone |-> None, phone_success |-> FALSE, verified |-> FALSE,
     codes |-> 0, releases |-> 0, released |-> NoRelease]

\* History of ended leases: per number, the requesters whose latest lease of
\* it ended by a release that returned True (released) or by the timeout
\* sweep (reclaimed), and the number of leases the sweep has ended so far.
NoneClosed ==
    [released |-> [n \in Numbers |-> {}],
     reclaimed |-> [n \in Numbers |-> {}],
     reclaims |-> 0]

RECURSIVE CountEnded(_, _)
CountEnded(ended, ns) ==
    IF ns = {} THEN 0
    ELSE LET n == CHOOSE x \in ns : TRUE
         IN  Cardinality(ended[n]) + CountEnded(ended, ns \ {n})

\* How requester t's latest lease of n ended.
LeaseEnd(cl, n, t) ==
    IF n \notin Numbers THEN None
    ELSE IF t \in cl.reclaimed[n] THEN "reclaimed"
    ELSE IF t \in cl.released[n] THEN "released"
    ELSE None

\* The sweep ended the leases of ended[n] on each number n.
CloseReclaimed(cl, ended) ==
    [cl EXCEPT !.reclaimed = [n \in Numbers |-> @[n] \cup ended[n]],
               !.reclaims = @ + CountEnded(ended, Numbers)]

\* Requester t holds a new lease of n.
Reopen(cl, n, t) ==
    [cl EXCEPT !.released[n] = @ \ {t}, !.reclaimed[n] = @ \ {t}]

SetLock(ph, n, t, tnow) ==
    [i \in DOMAIN ph |-> IF ph[i].number = n
                          THEN [ph[i] EXCEPT !.locked_by = t, !.locked_at = tnow]
                          ELSE ph[i]]

\* A release that never counts the use.
ClearLock_never_counts(ph, n, success) ==
    [i \in DOMAIN ph |->
        IF ph[i].number = n
        THEN [ph[i] EXCEPT !.locked_by = None, !.locked_at = NoTime]
        ELSE ph[i]]

\* A release that counts the use whatever `success` says.
ClearLock_always_counts(ph, n, success) ==
    [i \in DOMAIN ph |->
        IF ph[i].number = n
        THEN [ph[i] EXCEPT !.locked_by = None, !.locked_at = NoTime,
                           !.used_count = @ + 1]
        ELSE ph[i]]

\* A release that forgets to clear locked_at.
ClearLock_keeps_locked_at(ph, n, success) ==
    [i \in DOMAIN ph |->
        IF ph[i].number = n
        THEN [ph[i] EXCEPT !.locked_by = None,
                           !.used_count = IF success THEN @ + 1 ELSE @]
        ELSE ph[i]]

\* A release that counts the use but leaves the phone with its holder.
ClearLock_keeps_holder(ph, n, success) ==
    [i \in DOMAIN ph |->
        IF ph[i].number = n
        THEN [ph[i] EXCEPT !.used_count = IF success THEN @ + 1 ELSE @]
        ELSE ph[i]]

ClearLock(ph, n, success) ==
    [i \in DOMAIN ph |->
        IF ph[i].number = n
        THEN [ph[i] EXCEPT !.locked_by = None, !.locked_at = NoTime,
                           !.used_count = IF success THEN @ + 1 ELSE @]
        ELSE ph[i]]

\* A release without the ownership check.
release_valid_any_thread(ph, n, t) == InTable(ph, n)

\* release_phone's two checks: the number is in the table and locked by t.
release_valid(ph, n, t) == InTable(ph, n) /\ ph[IndexOf(ph, n)].locked_by = t

\* ------------------------------------------------------------ actions
\* acquire_phone is entered: end_time = time.time() + max_wait_seconds.
EnterAcquire(t, cap) ==
    /\ pc[t] = "idle"
    /\ total_acquired + Cardinality(Waiting) < cap
    /\ \E mw \in WaitBudgets :
          /\ now + mw <= MaxTime
          /\ end_time' = [end_time EXCEPT ![t] = now + mw]
    /\ pc' = [pc EXCEPT ![t] = "waiting"]
    /\ last' = Call("call")
    /\ UNCHANGED <<phones, max_uses, pool_size, now, total_acquired, total_released,
                   frame, leases, closed>>

acquire_call(t) == EnterAcquire(t, MaxLeases) /\ UNCHANGED flow

Return(t) ==
    /\ pc' = [pc EXCEPT ![t] = "idle"]
    /\ end_time' = [end_time EXCEPT ![t] = 0]

\* The tail of one loop iteration, shared by both classes: lock the phone
\* found and return it, or return None when the wait budget is spent, or
\* wait on the condition.  ph is the table after the sweep, ended[n] the
\* holders whose lease the sweep ended, push says whether set_status(1) is
\* called for the phone found.
FinishIteration(t, ph, ended, found, push, sreply, call) ==
    LET open == [n \in Numbers |-> leases[n] \ ended[n]]
        swept == CloseReclaimed(closed, ended)
    IN  IF found # None
        THEN LET act == ph[IndexOf(ph, found)].activation_id
                 pushed == push /\ act # NoActivation
                 raises == pushed /\ status_push_raises(sreply)
             IN  /\ phones' = SetLock(ph, found, t, now)
                 /\ total_acquired' = IF raises THEN total_acquired ELSE total_acquired + 1
                 /\ leases' = IF raises THEN open
                               ELSE [open EXCEPT ![found] = @ \cup {t}]
                 /\ closed' = IF raises THEN swept ELSE Reopen(swept, found, t)
                 /\ Return(t)
                 /\ last' = [call EXCEPT
                              !.ret = IF raises THEN "raised" ELSE found,
                              !.status_code = IF pushed THEN STATUS_READY ELSE 0,
                              !.status_reply = IF pushed THEN sreply ELSE None,
                              !.locked_calls = IF pushed THEN @ + 1 ELSE @]
        ELSE /\ phones' = ph
             /\ leases' = open
             /\ closed' = swept
             /\ total_acquired' = total_acquired
             /\ IF end_time[t] - now <= 0
                THEN /\ Return(t)
                     /\ last' = [call EXCEPT !.ret = None]
                ELSE /\ UNCHANGED <<pc, end_time>>
                     /\ last' = [call EXCEPT !.ret = "wait"]

\* One iteration of HeroSMSPhoneManager.acquire_phone's loop: refill, sweep,
\* scan, then lock-and-return, time out or wait.
AcquireIteration(t) ==
    /\ pc[t] = "waiting"
    /\ \E replies \in Replies(phones, Catalog, needed(phones, max_uses, pool_size)) :
        LET rf == refill_pool(phones, max_uses, pool_size, replies)
            swept == release_timed_out_phones(rf.phones, now)
            ended == [n \in Numbers |-> Reclaimed(rf.phones, now, n)]
            found == find_available_phone(swept)
            call == [Call("acquire") EXCEPT !.requests = rf.requests,
                                            !.added = rf.added,
                                            !.locked_calls = rf.requests,
                                            !.notified = swept # rf.phones]
        IN  IF rf.raised
            THEN /\ phones' = rf.phones
                 /\ Return(t)
                 /\ last' = [call EXCEPT !.ret = "raised"]
                 /\ UNCHANGED <<total_acquired, leases, closed>>
            ELSE \E sreply \in (IF found # None THEN StatusReplies ELSE {None}) :
                     FinishIteration(t, swept, ended, found, TRUE, sreply, call)
    /\ UNCHANGED <<max_uses, pool_size, now, total_released, frame>>

acquire_phone(t) == AcquireIteration(t) /\ UNCHANGED flow

\* One iteration of PhoneManager.acquire_phone's loop: sweep, scan, then
\* lock-and-return, time out or wait.
base_acquire_phone(t) ==
    /\ pc[t] = "waiting"
    /\ LET swept == release_timed_out_phones(phones, now)
           ended == [n \in Numbers |-> Reclaimed(phones, now, n)]
           found == find_available_phone(swept)
       IN  FinishIteration(t, swept, ended, found, FALSE, None,
                           [Call("acquire") EXCEPT !.notified = swept # phones])
    /\ UNCHANGED <<max_uses, pool_size, now, total_released, frame, flow>>

\* release_phone of both classes; push says whether the class reports the
\* end of the activation to the provisioner.
Release(t, n, success, push) ==
    /\ pc[t] = "idle"
    /\ IF ~release_valid(phones, n, t)
       THEN /\ last' = [Call("release") EXCEPT !.ret = "False",
                                                !.prior = LeaseEnd(closed, n, t)]
            /\ UNCHANGED <<phones, total_released, leases, closed>>
       ELSE LET act == phones[IndexOf(phones, n)].activation_id
                pushed == push /\ act # NoActivation
            IN  \E sreply \in (IF pushed THEN StatusReplies ELSE {None}) :
                  LET raises == pushed /\ status_push_raises(sreply)
                      call == [Call("release") EXCEPT
                                 !.status_code = IF ~pushed THEN 0
                                                 ELSE IF success THEN STATUS_COMPLETE
                                                 ELSE STATUS_CANCEL,
                                 !.status_reply = sreply,
                                 !.locked_calls = IF pushed THEN 1 ELSE 0,
                                 !.prior = LeaseEnd(closed, n, t)]
                  IN  IF raises
                      THEN /\ last' = [call EXCEPT !.ret = "raised"]
                           /\ UNCHANGED <<phones, total_released, leases, closed>>
                      ELSE /\ phones' = ClearLock(phones, n, success)
                           /\ total_released' = total_released + 1
                           /\ leases' = [leases EXCEPT ![n] = @ \ {t}]
                           /\ closed' = [closed EXCEPT !.released[n] = @ \cup {t}]
                           /\ last' = [call EXCEPT !.ret = "True", !.notified = TRUE]
    /\ UNCHANGED <<max_uses, pool_size, now, total_acquired, pc, end_time, frame>>

release_phone(t, n, success) == Release(t, n, success, TRUE) /\ UNCHANGED flow

base_release_phone(t, n, success) == Release(t, n, success, FALSE) /\ UNCHANGED flow

\* Time passes.
Tick ==
    /\ now < MaxTime
    /\ now' = now + 1
    /\ last' = Call("tick")
    /\ UNCHANGED <<phones, max_uses, pool_size, total_acquired, total_released, pc,
                   end_time, frame, leases, closed, flow>>

InitCommon ==
    /\ now = 0
    /\ total_acquired = 0
    /\ total_released = 0
    /\ pc = [t \in Workers |-> "idle"]
    /\ end_time = [t \in Workers |-> 0]
    /\ frame = [t \in Workers |-> NoFrame]
    /\ leases = [n \in Numbers |-> {}]
    /\ closed = NoneClosed
    /\ flow = [t \in Workers |-> NoFlow]

\* HeroSMSPhoneManager.__init__: an empty table, then the first refill.
Init ==
    /\ max_uses \in MaxUsesChoices
    /\ pool_size \in PoolSizes
    /\ \E replies \in Replies(<<>>, Catalog, pool_size) :
        LET rf == refill_pool(<<>>, max_uses, pool_size, replies)
        IN  /\ phones = rf.phones
            /\ last = [Call("init") EXCEPT !.requests = rf.requests,
                                           !.added = rf.added]
    /\ InitCommon

Callable == Numbers \cup {UnknownNumber}

Next ==
    \/ \E t \in Workers : acquire_call(t)
    \/ \E t \in Workers : acquire_phone(t)
    \/ \E t \in Workers, n \in Callable, s \in BOOLEAN : release_phone(t, n, s)
    \/ Tick

Spec == Init /\ [][Next]_vars

\* PhoneManager.__init__ with the list StaticPhones.
InitStatic ==
    /\ max_uses = HardcodedMaxUses
    /\ pool_size = 0
    /\ phones = [i \in DOMAIN StaticPhones |-> PhoneInfo(StaticPhones[i], NoActivation)]
    /\ last = Call("init")
    /\ InitCommon

base_acquire_call(t) == EnterAcquire(t, MaxStaticLeases) /\ UNCHANGED flow

NextStatic ==
    \/ \E t \in Workers : base_acquire_call(t)
    \/ \E t \in Workers : base_acquire_phone(t)
    \/ \E t \in Workers, n \in Callable, s \in BOOLEAN : base_release_phone(t, n, s)
    \/ Tick

SpecStatic == InitStatic /\ [][NextStatic]_vars

\* ------------------------------------------------ _refill_pool on its own
\* One run of _refill_pool on a table the pool can hold: up to three phones,
\* each free with 0..2 uses or leased with 0..1 uses.
ScenarioCatalog == <<"p1", "p2", "p3", "p4", "p5">>
ScenarioPoolSizes == {1, 2, 3}
ScenarioLens == {0, 1, 2, 3}

PhoneStates(n) ==
    {[number |-> n, used_count |-> c, locked_by |-> None, locked_at |-> NoTime,
      activation_id |-> a] : c \in 0..HardcodedMaxUses, a \in ActivationIds}
    \cup
    {[number |-> n, used_count |-> c, locked_by |-> t, locked_at |-> 0,
      activation_id |-> a] : c \in 0..(HardcodedMaxUses - 1), t \in Workers,
                             a \in ActivationIds}

InitRefill ==
    /\ max_uses \in MaxUsesChoices
    /\ pool_size \in ScenarioPoolSizes
    /\ \E len \in ScenarioLens :
         /\ phones \in [1..len -> UNION {PhoneStates(ScenarioCatalog[i]) : i \in 1..len}]
         /\ \A i \in 1..len : phones[i].number = ScenarioCatalog[i]
    /\ last = Call("init")
    /\ InitCommon

refill_run ==
    /\ last.op = "init"
    /\ \E replies \in Replies(phones, ScenarioCatalog, needed(phones, max_uses, pool_size)) :
        LET rf == refill_pool(phones, max_uses, pool_size, replies)
        IN  /\ phones' = rf.phones
            /\ last' = [Call("refill") EXCEPT !.requests = rf.requests,
                                              !.added = rf.added,
                                              !.ret = IF rf.raised THEN "raised" ELSE None]
    /\ UNCHANGED <<max_uses, pool_size, now, total_acquired, total_released, pc,
                   end_time, frame, leases, closed, flow>>

SpecRefill == InitRefill /\ [][refill_run]_vars

\* ------------------------------------ HeroSMSPhoneManager.get_sms_code
Codes == {"c1", "c2"}              \* SMS codes the provisioner delivers
EmptyCode == ""                    \* the code of a bare "STATUS_OK:" answer
MaxRetriesChoices == {0, 1, 2}     \* values of the max_retries argument
MaxCodeLeases == 2                 \* leases granted in one run beside get_sms_code

\* What hero_client.get_status returns (or that it raises).
StatusResults ==
    {[status |-> "success", code |-> c] : c \in Codes \cup {EmptyCode}}
    \cup {[status |-> st, code |-> None] : st \in {"wait", "canceled", "error", "raise"}}

\* A classification that takes a canceled activation for one to poll again.
poll_outcome_ignores_cancel(status) ==
    IF status.status = "raise" THEN "retry"
    ELSE IF status.status = "success" /\ status.code \notin {None, EmptyCode} THEN "code"
    ELSE "retry"

\* The if/elif chain of one loop iteration: return the code, return None, or
\* sleep and go to the next attempt.
poll_outcome(status) ==
    IF status.status = "raise" THEN "retry"                   \* except Exception
    ELSE IF status.status = "success" /\ status.code \notin {None, EmptyCode} THEN "code"
    ELSE IF status.status = "wait" THEN "retry"
    ELSE IF status.status = "canceled" THEN "none"
    ELSE "retry"

\* A polling loop that holds the lock of the snapshot.
polls_keep_lock(polls) == polls

\* `with self._lock:` ends before the loop: the get_status calls of `polls`
\* iterations that are made with the lock held.
polls_under_lock(polls) == 0

\* A loop in which a waiting answer does not use up an attempt.
next_attempt_free_wait(attempt, status) ==
    IF status.status = "wait" THEN attempt ELSE attempt + 1

\* for attempt in range(max_retries): every iteration uses up one attempt.
next_attempt(attempt, status) == attempt + 1

\* A get_sms_code that polls whatever activation_id it read.
activation_missing_never(act) == FALSE

\* if not activation_id: return None
activation_missing(act) == act = NoActivation

\* get_sms_code up to its loop: the lookup under the lock, the test of
\* activation_id, and the return of a loop of no iterations.
GetSmsCodeCall(t, n, mr) ==
    /\ pc[t] = "idle"
    /\ IF ~InTable(phones, n)
       THEN /\ last' = [Call("get_code") EXCEPT !.lookup = "unknown"]
            /\ UNCHANGED <<pc, frame>>
       ELSE LET act == phones[IndexOf(phones, n)].activation_id
                call == [Call("get_code") EXCEPT
                           !.lookup = IF act = NoActivation THEN "bare" ELSE "found"]
            IN  IF activation_missing(act) \/ mr = 0
                THEN /\ last' = call
                     /\ UNCHANGED <<pc, frame>>
                ELSE /\ pc' = [pc EXCEPT ![t] = "polling"]
                     /\ frame' = [frame EXCEPT ![t] =
                                    [activation_id |-> act, attempt |-> 0,
                                     max_retries |-> mr, polls |-> 0]]
                     /\ last' = [call EXCEPT !.ret = "polling"]
    /\ UNCHANGED <<phones, max_uses, pool_size, now, total_acquired, total_released,
                   end_time, leases, closed>>

get_sms_code(t, n, mr) == GetSmsCodeCall(t, n, mr) /\ UNCHANGED flow

\* One iteration of get_sms_code's loop.
GetSmsCodePoll(t) ==
    /\ pc[t] = "polling"
    /\ \E status \in StatusResults :
         LET outcome == poll_outcome(status)
             attempt == next_attempt(frame[t].attempt, status)
             call == [Call("poll") EXCEPT !.status_reply = status.status,
                                         !.code = status.code,
                                         !.locked_calls = polls_under_lock(1)]
         IN  IF outcome = "code" \/ outcome = "none" \/ attempt >= frame[t].max_retries
             THEN /\ pc' = [pc EXCEPT ![t] = "idle"]
                  /\ frame' = [frame EXCEPT ![t] = NoFrame]
                  /\ last' = [call EXCEPT !.ret = IF outcome = "code" THEN status.code
                                                  ELSE None]
             ELSE /\ frame' = [frame EXCEPT ![t].attempt = attempt,
                                            ![t].polls = @ + 1]
                  /\ last' = [call EXCEPT !.ret = "polling"]
                  /\ UNCHANGED pc
    /\ UNCHANGED <<phones, max_uses, pool_size, now, total_acquired, total_released,
                   end_time, leases, closed>>

get_sms_code_poll(t) == GetSmsCodePoll(t) /\ UNCHANGED flow

code_acquire_call(t) == EnterAcquire(t, MaxCodeLeases) /\ UNCHANGED flow

NextCode ==
    \/ \E t \in Workers, n \in Callable, mr \in MaxRetriesChoices : get_sms_code(t, n, mr)
    \/ \E t \in Workers : get_sms_code_poll(t)
    \/ \E t \in Workers : code_acquire_call(t)
    \/ \E t \in Workers : acquire_phone(t)
    \/ \E t \in Workers, n \in Callable, s \in BOOLEAN : release_phone(t, n, s)

SpecCode == Init /\ [][NextCode]_vars

\* A thread inside get_sms_code's loop runs its next iteration: get_status
\* returns (requests time out) and time.sleep(retry_interval) ends.
FairSpecCode == SpecCode /\ \A t \in Workers : WF_vars(get_sms_code_poll(t))

\* The same pool when the provisioner answered some of the first requests
\* with an empty activationId: str('') is stored, and the record has no
\* activation_id to push or poll.
InitBare ==
    /\ max_uses \in MaxUsesChoices
    /\ pool_size \in PoolSizes
    /\ \E replies \in Replies(<<>>, Catalog, pool_size) :
        LET rf == refill_pool(<<>>, max_uses, pool_size, replies)
        IN  /\ \E bare \in SUBSET DOMAIN rf.phones :
                 phones = [i \in DOMAIN rf.phones |->
                             IF i \in bare
                             THEN [rf.phones[i] EXCEPT !.activation_id = NoActivation]
                             ELSE rf.phones[i]]
            /\ last = [Call("init") EXCEPT !.requests = rf.requests,
                                           !.added = rf.added]
    /\ InitCommon

SpecBare == InitBare /\ [][NextCode]_vars

\* ------------------------------- release_phone and the blocked acquirers
\* A pool of size 1 that is used for longer: threads acquire, release and
\* wait on the condition; the clock stands still, so a thread that waits with
\* budget left stays blocked until an iteration of its loop finds a phone.
MaxWakeLeases == 3                 \* leases granted in one run of this pool

InitWake == Init /\ pool_size = 1

wake_acquire_call(t) == EnterAcquire(t, MaxWakeLeases) /\ UNCHANGED flow

NextWake ==
    \/ \E t \in Workers : wake_acquire_call(t)
    \/ \E t \in Workers : acquire_phone(t)
    \/ \E t \in Workers, n \in Callable, s \in BOOLEAN : release_phone(t, n, s)

SpecWake == InitWake /\ [][NextWake]_vars

\* ------------------------------------------- AmazonCreator.main_flow
\* Each thread runs main_flow once on the shared HeroSMSPhoneManager.  The
\* browser steps are nondeterministic: each returns a status or raises.
MaxFlowLeases == 2                 \* leases granted in one run of the flows

\* A finally block that gives the phone back only after a verification.
release_in_finally_if_verified(phone, phone_success) == phone # None /\ phone_success

\* finally: if phone: self.phone_manager.release_phone(phone, success=phone_success)
release_in_finally(phone, phone_success) == phone # None

\* The steps before the acquire: one of them returns or raises (the finally
\* block is next), or they pass and acquire_phone is called.
main_flow_begin(t) ==
    /\ flow[t].at = "start"
    /\ \/ /\ flow' = [flow EXCEPT ![t].at = "finally"]
          /\ last' = Call("flow")
          /\ UNCHANGED <<phones, max_uses, pool_size, now, total_acquired,
                         total_released, pc, end_time, leases, closed>>
       \/ /\ EnterAcquire(t, MaxFlowLeases)
          /\ flow' = [flow EXCEPT ![t].at = "acquire"]
    /\ UNCHANGED frame

\* phone = self.phone_manager.acquire_phone(); if not phone: return ...
main_flow_acquire(t) ==
    /\ flow[t].at = "acquire"
    /\ AcquireIteration(t)
    /\ flow' = IF last'.ret = "wait" THEN flow
               ELSE IF last'.ret \in Numbers
               THEN [flow EXCEPT ![t].at = "verify", ![t].phone = last'.ret]
               ELSE [flow EXCEPT ![t].at = "finally"]

\* add_mobile_number up to its get_sms_code call: it returns 'skipped' or
\* 'error', or raises, or calls get_sms_code, which may return None at once.
main_flow_verify(t) ==
    /\ flow[t].at = "verify"
    /\ \/ /\ flow' = [flow EXCEPT ![t].at = "finally", ![t].phone_success = FALSE]
          /\ last' = Call("flow")
          /\ UNCHANGED <<phones, max_uses, pool_size, now, total_acquired,
                         total_released, pc, end_time, frame, leases, closed>>
       \/ \E mr \in MaxRetriesChoices :
             /\ GetSmsCodeCall(t, flow[t].phone, mr)
             /\ flow' = IF last'.ret = "polling"
                        THEN [flow EXCEPT ![t].at = "code", ![t].codes = @ + 1]
                        ELSE [flow EXCEPT ![t].at = "finally", ![t].codes = @ + 1,
                                          ![t].phone_success = FALSE]

\* One iteration of get_sms_code's loop inside add_mobile_number, and, when it
\* is the last, the rest of add_mobile_number and of the try block: without a
\* code the result is 'error'; with a code the OTP steps succeed
\* (phone_success = True) or raise (result 'error').
main_flow_poll(t) ==
    /\ flow[t].at = "code"
    /\ GetSmsCodePoll(t)
    /\ IF last'.ret = "polling" THEN flow' = flow
       ELSE IF last'.ret \in Codes
       THEN \E ok \in BOOLEAN :
               flow' = [flow EXCEPT ![t].at = "finally", ![t].phone_success = ok,
                                    ![t].verified = ok]
       ELSE flow' = [flow EXCEPT ![t].at = "finally", ![t].phone_success = FALSE]

\* The finally block.
main_flow_finally(t) ==
    /\ flow[t].at = "finally"
    /\ IF release_in_finally(flow[t].phone, flow[t].phone_success)
       THEN /\ Release(t, flow[t].phone, flow[t].phone_success, TRUE)
            /\ flow' = [flow EXCEPT ![t].at = "done", ![t].releases = @ + 1,
                                    ![t].released = [number |-> flow[t].phone,
                                                     by |-> t,
                                                     success |-> flow[t].phone_success]]
       ELSE /\ flow' = [flow EXCEPT ![t].at = "done"]
            /\ last' = Call("flow")
            /\ UNCHANGED <<phones, max_uses, pool_size, now, total_acquired,
                           total_released, pc, end_time, frame, leases, closed>>

NextFlow ==
    \/ \E t \in Workers : main_flow_begin(t)
    \/ \E t \in Workers : main_flow_acquire(t)
    \/ \E t \in Workers : main_flow_verify(t)
    \/ \E t \in Workers : main_flow_poll(t)
    \/ \E t \in Workers : main_flow_finally(t)
    \/ Tick

SpecFlow == Init /\ [][NextFlow]_vars

\* ====================================================================
\* The claims
\* ====================================================================
Leased(ph) == {i \in DOMAIN ph : ph[i].locked_by # None}

\* Available as the data model defines it: not leased and not exhausted.
Available(ph) == {i \in DOMAIN ph : ph[i].locked_by = None /\ ph[i].used_count < max_uses}

HeldBy(ph, n, t) == \E i \in DOMAIN ph : ph[i].number = n /\ ph[i].locked_by = t

RECURSIVE SumUsed(_)
SumUsed(ph) == IF ph = <<>> THEN 0 ELSE Head(ph).used_count + SumUsed(Tail(ph))

Expired(p) == p.locked_by # None /\ now - p.locked_at > Timeout

\* C1: the lease intervals of two distinct requesters on one resource never
\* overlap: at most one requester has an open lease (granted by acquire, not
\* yet ended by a release that returned true or by the TTL sweep) on it.
C1_NoOverlappingLeases == \A n \in Numbers : Cardinality(leases[n]) <= 1

\* C2: for every configured max_uses, usage_count <= max_uses for every
\* resource in every reachable state.
C2_UsageWithinMaxUses == \A i \in DOMAIN phones : phones[i].used_count <= max_uses

\* C3: exhausted is terminal: a resource whose usage_count equals max_uses keeps
\* that usage_count and stays without holder in every later step.
C3_ExhaustedIsTerminal ==
    [][\A i \in DOMAIN phones :
          phones[i].used_count = max_uses =>
             /\ phones'[i].number = phones[i].number
             /\ phones'[i].used_count = phones[i].used_count
             /\ phones'[i].locked_by = None]_vars

\* C4: a release with an unknown resource id, or by a requester that is not
\* the holder, returns false, pushes no status to the provisioner and changes
\* nothing of the table or the counters.
C4_InvalidReleaseChangesNothing ==
    [][\A t \in Workers, n \in Callable, s \in BOOLEAN :
          (last'.op = "release" /\ release_phone(t, n, s) /\ ~HeldBy(phones, n, t)) =>
             /\ last'.ret = "False"
             /\ last'.status_code = 0
             /\ UNCHANGED <<phones, total_acquired, total_released>>]_vars

C4_Witness ==
    /\ last.op = "release" /\ last.ret = "False"
    /\ Leased(phones) # {}

\* C5: a release with success=true by the holder returns true, adds exactly 1
\* to that resource's usage_count, clears holder and leased_at, adds 1 to
\* total_released and changes no other resource.
C5_ReleaseSuccessCountsOneUse ==
    [][\A t \in Workers, n \in Numbers :
          (last'.op = "release" /\ release_phone(t, n, TRUE) /\ HeldBy(phones, n, t)) =>
             /\ last'.ret = "True"
             /\ total_released' = total_released + 1
             /\ DOMAIN phones' = DOMAIN phones
             /\ \A i \in DOMAIN phones :
                   IF phones[i].number = n
                   THEN phones'[i] = [phones[i] EXCEPT !.used_count = @ + 1,
                                                       !.locked_by = None,
                                                       !.locked_at = NoTime]
                   ELSE phones'[i] = phones[i]]_vars

C5_Witness ==
    /\ last.op = "release" /\ last.ret = "True" /\ last.status_code = STATUS_COMPLETE
    /\ \E i \in DOMAIN phones : phones[i].used_count > 0 /\ phones[i].locked_by = None

\* C6: a release with success=false by the holder leaves usage_count unchanged
\* and clears the lease, and the resource is then one the acquire scan hands
\* out: the scan returns it unless an earlier resource of the table is free.
C6_ReleaseFailureKeepsResourceUsable ==
    [][\A t \in Workers, n \in Numbers :
          (last'.op = "release" /\ release_phone(t, n, FALSE) /\ HeldBy(phones, n, t)) =>
             /\ DOMAIN phones' = DOMAIN phones
             /\ \A i \in DOMAIN phones :
                   phones[i].number = n =>
                      /\ phones'[i] = [phones[i] EXCEPT !.locked_by = None,
                                                         !.locked_at = NoTime]
                      /\ find_available_phone(phones') # None
                      /\ (\A j \in 1..(i - 1) :
                             phones'[j].locked_by # None
                             \/ phones'[j].used_count >= HardcodedMaxUses)
                         => find_available_phone(phones') = n]_vars

C6_Witness ==
    /\ last.op = "release" /\ last.ret = "True" /\ last.status_code = STATUS_CANCEL
    /\ find_available_phone(phones) # None

\* C7: a lease older than the TTL is ended by the next acquire iteration of
\* any requester, and one use is charged to the resource.
C7_ExpiredLeaseIsCharged ==
    [][\A t \in Workers : \A i \in DOMAIN phones :
          (last'.op = "acquire" /\ Expired(phones[i]) /\ acquire_phone(t)) =>
             /\ phones'[i].used_count = phones[i].used_count + 1
             /\ \/ phones'[i].locked_by = None /\ phones'[i].locked_at = NoTime
                \/ phones'[i].locked_by = t /\ phones'[i].locked_at = now]_vars

\* C8: acquire ends with an ordinary return value: every iteration of its loop
\* returns a resource id, or returns none (once the wait budget is spent and
\* the scan found nothing), or waits, which it does only while budget is left,
\* so that the iteration run at or after end_time returns; it never raises,
\* whatever the provisioner answers to the refill and to the status push.
C8_AcquireReturnsNormally ==
    [][\A t \in Workers :
          (last'.op = "acquire" /\ acquire_phone(t)) =>
             /\ last'.ret \in Numbers \cup {None, "wait"}
             /\ last'.ret = "wait" <=> pc'[t] = "waiting"
             /\ last'.ret = "wait" <=> (now < end_time[t] /\ last'.ret \notin Numbers)
             /\ last'.ret = None =>
                   /\ end_time[t] <= now
                   /\ find_available_phone(phones') = None
             /\ last'.ret \in Numbers => HeldBy(phones', last'.ret, t)]_vars

C8_Witness ==
    /\ last.op = "acquire" /\ last.ret = None
    /\ last.requests > last.added

\* C9: a static pool of M resources grants at most 2*M counted leases (4 for
\* the pool of 2), every counted lease being one that acquire granted; once
\* every resource is exhausted an acquire changes nothing and returns none
\* when its wait budget is spent.
C9_StaticPoolLeaseBudget ==
    /\ [](/\ SumUsed(phones) <= HardcodedMaxUses * Len(StaticPhones)
          /\ SumUsed(phones) + Cardinality(Leased(phones)) <= total_acquired)
    /\ [][\A t \in Workers :
            (/\ last'.op = "acquire"
             /\ \A i \in DOMAIN phones : phones[i].used_count = HardcodedMaxUses
             /\ base_acquire_phone(t)) =>
               /\ last'.ret \in {None, "wait"}
               /\ end_time[t] <= now => last'.ret = None
               /\ UNCHANGED <<phones, total_acquired>>]_vars

C9_Witness ==
    /\ SumUsed(phones) = HardcodedMaxUses * Len(StaticPhones)
    /\ total_acquired = HardcodedMaxUses * Len(StaticPhones)
    /\ last.op = "acquire" /\ last.ret = None

\* C10, as stated: with pool_size 3, 1 resource available and 2 leased, a
\* refill requests exactly 1 new resource.
RefillScenario ==
    /\ pool_size = 3
    /\ Cardinality(Available(phones)) = 1
    /\ Cardinality(Leased(phones)) = 2

C10_RefillRequestsExactlyOne ==
    [][(last'.op = "refill" /\ RefillScenario) => last'.requests = 1]_vars

\* C10, amended: in that scenario needed = 3 - 1 = 2: the refill makes 2
\* requests when the first one succeeds and 1 when the first one fails.
C10_RefillRequestsUpToNeeded ==
    [][(last'.op = "refill" /\ RefillScenario) =>
          /\ last'.requests \in {1, 2}
          /\ last'.requests = 2 <=> last'.added >= 1]_vars

C10_Witness ==
    /\ pool_size = 3
    /\ last.op = "refill" /\ last.requests = 2 /\ last.added = 2
    /\ Len(phones) = 5
    /\ Cardinality(Leased(phones)) = 2
    /\ Cardinality(Available(phones)) = 3

\* C11: no provisioner call (get_number_v2 of a refill, set_status of an
\* acquire or a release) is made while the pool lock is held: no step makes a
\* provisioner call inside its locked block.
C11_NoProvisionerCallUnderLock ==
    [][last'.op \in {"acquire", "release"} => last'.locked_calls = 0]_vars

\* C12: get_sms_code holds the pool lock only for the lookup of activation_id:
\* its entry step makes no provisioner call, and no get_status call of its
\* polling loop is made with the lock held, so steps of other workers
\* interleave with the polling.
C12_PollsOutsideLock ==
    [][last'.op \in {"get_code", "poll"} =>
          /\ last'.locked_calls = 0
          /\ last'.op = "get_code" => last'.status_reply = None
          /\ last'.op = "poll" => last'.status_reply # None]_vars

C12_Witness ==
    /\ last.op = "acquire" /\ last.ret \in Numbers
    /\ \E t \in Workers : pc[t] = "polling" /\ frame[t].polls >= 1

\* C13: a poll answered with a code returns that code at once; a poll answered
\* canceled returns None at once; a poll answered waiting or error, or one
\* that raised, goes on to the next attempt while attempts are left and
\* returns None when none is left; a code is returned only by the poll that
\* received it.
C13_PollClassification ==
    [][\A t \in Workers :
          (last'.op = "poll" /\ get_sms_code_poll(t)) =>
             LET st == last'.status_reply
                 cd == last'.code
             IN  /\ (st = "success" /\ cd \in Codes) =>
                        (last'.ret = cd /\ pc'[t] = "idle")
                 /\ st = "canceled" => (last'.ret = None /\ pc'[t] = "idle")
                 /\ st \in {"wait", "error", "raise"} =>
                        IF frame[t].attempt + 1 < frame[t].max_retries
                        THEN last'.ret = "polling" /\ pc'[t] = "polling"
                        ELSE last'.ret = None /\ pc'[t] = "idle"
                 /\ last'.ret \in Codes => (st = "success" /\ cd = last'.ret)]_vars

C13_Witness ==
    /\ last.op = "poll" /\ last.status_reply = "canceled" /\ last.ret = None
    /\ \E t \in Workers : pc[t] = "polling" /\ frame[t].polls >= 1

\* C14: get_sms_code makes at most max_retries get_status calls: every poll
\* that does not return uses up one attempt, whatever the answer (waiting,
\* error, exception); the poll that uses up the last attempt returns None; no
\* poll raises; and a call that is polling returns.
C14_PollingIsBounded ==
    /\ [](\A t \in Workers :
            pc[t] = "polling" =>
               /\ frame[t].attempt < frame[t].max_retries
               /\ frame[t].polls = frame[t].attempt)
    /\ [][\A t \in Workers :
            (last'.op = "poll" /\ get_sms_code_poll(t)) =>
               /\ frame[t].polls + 1 <= frame[t].max_retries
               /\ last'.ret \in Codes \cup {None, "polling"}
               /\ last'.ret = "polling" <=> pc'[t] = "polling"
               /\ last'.ret = "polling" =>
                     /\ frame'[t].attempt = frame[t].attempt + 1
                     /\ frame'[t].polls = frame[t].polls + 1
               /\ (frame[t].attempt + 1 = frame[t].max_retries /\ last'.ret \notin Codes)
                     => last'.ret = None]_vars
    /\ \A t \in Workers : (pc[t] = "polling") ~> (pc[t] = "idle")

C14_Witness ==
    /\ last.op = "poll" /\ last.ret = None
    /\ last.status_reply \in {"wait", "error", "raise"}

\* C15: a valid release whose status push fails (an error result or an
\* exception of set_status) still returns True, clears the lease, counts the
\* use when success is true, adds 1 to total_released and notifies the
\* waiters.
C15_ReleaseSurvivesPushFailure ==
    [][\A t \in Workers, n \in Numbers, s \in BOOLEAN :
          (/\ last'.op = "release"
           /\ release_phone(t, n, s)
           /\ HeldBy(phones, n, t)
           /\ last'.status_reply \in {"error", "raise"}) =>
             /\ last'.ret = "True"
             /\ last'.status_code = IF s THEN STATUS_COMPLETE ELSE STATUS_CANCEL
             /\ total_released' = total_released + 1
             /\ last'.notified
             /\ \A i \in DOMAIN phones :
                   phones[i].number = n =>
                      phones'[i] = [phones[i] EXCEPT
                                      !.locked_by = None,
                                      !.locked_at = NoTime,
                                      !.used_count = IF s THEN @ + 1 ELSE @]]_vars

C15_Witness ==
    /\ last.op = "release" /\ last.ret = "True" /\ last.status_reply = "raise"
    /\ last.status_code = STATUS_COMPLETE
    /\ \E i \in DOMAIN phones : phones[i].used_count > 0 /\ phones[i].locked_by = None

\* C16: one refill run computes needed = pool_size minus the number of phones
\* that are neither leased nor exhausted; it makes no request when needed <= 0,
\* at most needed requests otherwise, fewer than needed only when its last
\* request failed, no request after a failed one, and every number obtained
\* is in the table afterwards as a fresh record, beside the numbers that were
\* there.
C16_RefillStopsAtFirstFailure ==
    [][last'.op = "refill" =>
          LET nd == pool_size - Cardinality(Available(phones))
          IN  /\ nd <= 0 => (last'.requests = 0 /\ phones' = phones)
              /\ nd > 0 => last'.requests <= nd
              /\ last'.added <= last'.requests
              /\ last'.requests <= last'.added + 1
              /\ (nd > 0 /\ last'.requests < nd) => last'.requests = last'.added + 1
              /\ last'.ret = None
              /\ TableNumbers(phones) \subseteq TableNumbers(phones')
              /\ \A replies \in Replies(phones, ScenarioCatalog, nd) :
                    LET rf == refill_pool(phones, max_uses, pool_size, replies)
                    IN  (/\ rf.requests = last'.requests
                         /\ rf.added = last'.added
                         /\ rf.phones = phones') =>
                       \A i \in 1..last'.added :
                          /\ InTable(phones', replies[i].phoneNumber)
                          /\ phones'[IndexOf(phones', replies[i].phoneNumber)]
                                = PhoneInfo(replies[i].phoneNumber,
                                            replies[i].activationId)]_vars

C16_Witness ==
    /\ last.op = "refill" /\ last.requests = 2 /\ last.added = 1
    /\ pool_size = 3
    /\ Len(phones) = 1

\* C17: between two consecutive successful acquires of a number by different
\* requesters the first one released it, with a release that returned True:
\* when an acquire iteration hands a number to t, no other requester has a
\* lease on it that is still open when the iteration starts.
C17_ReleaseBetweenAcquires ==
    [][\A t \in Workers, n \in Numbers :
          (last'.op = "acquire" /\ last'.ret = n /\ acquire_phone(t)) =>
             leases[n] \ {t} = {}]_vars

\* C18: in every state each resource is in exactly one of Free (no holder,
\* used_count < max_uses), Leased (holder set, used_count < max_uses) and
\* Exhausted (used_count = max_uses, no holder); none is both held and
\* exhausted.
C18_ExactlyOneState ==
    \A i \in DOMAIN phones :
       \/ phones[i].locked_by = None /\ phones[i].used_count < max_uses
       \/ phones[i].locked_by # None /\ phones[i].used_count < max_uses
       \/ phones[i].locked_by = None /\ phones[i].used_count = max_uses

\* C19: in every state a resource's holder is set if and only if its leased_at
\* is set: acquire sets both, release and the TTL sweep clear both, each in
\* one locked step.
C19_HolderIffLeasedAt ==
    /\ [](\A i \in DOMAIN phones :
            phones[i].locked_by = None <=> phones[i].locked_at = NoTime)
    /\ [][\A t \in Workers :
            (last'.op = "acquire" /\ last'.ret \in Numbers /\ acquire_phone(t)) =>
               \E i \in DOMAIN phones' :
                  /\ phones'[i].number = last'.ret
                  /\ phones'[i].locked_by = t
                  /\ phones'[i].locked_at = now]_vars

C19_Witness ==
    /\ last.op = "acquire" /\ last.notified
    /\ \E i \in DOMAIN phones :
          /\ phones[i].number = last.ret
          /\ phones[i].used_count > 0
          /\ phones[i].locked_at = now
    /\ \E i \in DOMAIN phones : phones[i].locked_by = None

\* C20: a valid release notifies the blocked acquirers, and an acquirer that
\* runs its next iteration while a resource is free and not exhausted (its
\* used_count below max_uses) obtains a resource: it neither waits again nor
\* times out with the resource left free.
C20_ReleaseWakesAcquirers ==
    /\ [][(last'.op = "release" /\ last'.ret = "True") => last'.notified]_vars
    /\ [][\A t \in Workers :
            (/\ last'.op = "acquire"
             /\ Available(phones) # {}
             /\ acquire_phone(t)) =>
               last'.ret \in Numbers]_vars

\* C21, as stated: a refill that runs with fewer than pool_size resources
\* available and whose requests all succeed ends with exactly pool_size
\* resources available.
C21_RefillReachesTarget ==
    [][LET nd == pool_size - Cardinality(Available(phones))
       IN  (last'.op = "refill" /\ nd > 0 /\ last'.added = nd) =>
              Cardinality(Available(phones')) = pool_size]_vars

\* C21, amended: the same when every request moreover returns a number that
\* is not yet in the table (the table grows by one record per request).
C21_RefillReachesTargetWithNewNumbers ==
    [][LET nd == pool_size - Cardinality(Available(phones))
       IN  (/\ last'.op = "refill"
            /\ nd > 0
            /\ last'.added = nd
            /\ Len(phones') = Len(phones) + last'.added) =>
              /\ last'.requests = nd
              /\ Cardinality(Available(phones')) = pool_size
              /\ \A i \in DOMAIN phones : phones'[i] = phones[i]]_vars

C21_Witness ==
    /\ last.op = "refill" /\ last.requests = 2 /\ last.added = 2
    /\ pool_size = 2
    /\ Len(phones) = 3
    /\ Cardinality(Available(phones)) = 2

\* C22: an acquire iteration sweeps the expired leases before it refills: the
\* resources the sweep frees count as available when needed is computed, so
\* the iteration makes at most pool_size minus (available after the sweep)
\* provisioner requests.
C22_SweepBeforeRefill ==
    [][\A t \in Workers :
          (last'.op = "acquire" /\ acquire_phone(t)) =>
             LET swept == release_timed_out_phones(phones, now)
                 nd == pool_size - Cardinality(Available(swept))
             IN  last'.requests <= IF nd > 0 THEN nd ELSE 0]_vars

\* C23: a refill only inserts new resources: every resource that was in the
\* table before the refill has the same holder, leased_at, usage_count and
\* external_ref after it, even when the provisioner returns an id that is
\* already present.
C23_RefillOnlyInserts ==
    [][last'.op = "refill" =>
          \A i \in DOMAIN phones :
             \E j \in DOMAIN phones' :
                /\ phones'[j].number = phones[i].number
                /\ phones'[j].locked_by = phones[i].locked_by
                /\ phones'[j].locked_at = phones[i].locked_at
                /\ phones'[j].used_count = phones[i].used_count
                /\ phones'[j].activation_id = phones[i].activation_id]_vars

\* C24: for every max_uses, refill and scan agree on which resources are
\* available: whenever the refill of an acquire iteration counts at least one
\* resource as available (and requests fewer for it), the scan of the same
\* iteration returns a resource.
C24_RefillAndScanAgree ==
    [][\A t \in Workers :
          (/\ last'.op = "acquire"
           /\ acquire_phone(t)
           /\ available_count(phones, max_uses) >= 1) =>
             last'.ret \in Numbers]_vars

\* C25: once the timeout sweep has ended requester A's lease of resource R
\* (and A has not leased R again), a release of R by A, with either value of
\* success, returns false, sends no status and changes neither the table nor
\* the counters, whether R is now free, exhausted or leased to another
\* requester.
C25_LateReleaseAfterReclaim ==
    [][\A t \in Workers, n \in Numbers, s \in BOOLEAN :
          (/\ last'.op = "release"
           /\ release_phone(t, n, s)
           /\ t \in closed.reclaimed[n]) =>
             /\ last'.ret = "False"
             /\ last'.status_code = 0
             /\ UNCHANGED <<phones, total_acquired, total_released>>]_vars

\* The late release found R leased to another requester (the only lease the
\* sweep has ended so far is the caller's).
C25_Witness ==
    /\ last.op = "release" /\ last.ret = "False" /\ last.prior = "reclaimed"
    /\ closed.reclaims = 1
    /\ \E t \in Workers, n \in Numbers :
          /\ closed.reclaimed[n] = {t}
          /\ \E i \in DOMAIN phones :
                /\ phones[i].number = n
                /\ phones[i].locked_by \in Workers \ {t}

\* The late release found R free and still usable.
C25_WitnessFree ==
    /\ last.op = "release" /\ last.ret = "False" /\ last.prior = "reclaimed"
    /\ closed.reclaims = 1
    /\ \E t \in Workers, n \in Numbers :
          /\ closed.reclaimed[n] = {t}
          /\ \E i \in DOMAIN phones :
                /\ phones[i].number = n
                /\ phones[i].locked_by = None
                /\ phones[i].used_count < max_uses

\* The late release found R exhausted.
C25_WitnessExhausted ==
    /\ last.op = "release" /\ last.ret = "False" /\ last.prior = "reclaimed"
    /\ closed.reclaims = 1
    /\ \E t \in Workers, n \in Numbers :
          /\ closed.reclaimed[n] = {t}
          /\ \E i \in DOMAIN phones :
                /\ phones[i].number = n
                /\ phones[i].locked_by = None
                /\ phones[i].used_count >= max_uses

\* C26: a release is not repeatable: after release(R, A) returned true, and
\* until A leases R again, another release(R, A) returns false, sends no
\* status to the provisioner and changes neither usage_count nor any other
\* field of the table, nor total_released.
C26_ReleaseNotRepeatable ==
    [][\A t \in Workers, n \in Numbers, s \in BOOLEAN :
          (/\ last'.op = "release"
           /\ release_phone(t, n, s)
           /\ t \in closed.released[n]) =>
             /\ last'.ret = "False"
             /\ last'.status_code = 0
             /\ last'.locked_calls = 0
             /\ UNCHANGED <<phones, total_acquired, total_released>>]_vars

\* The second release of the only lease that was released so far.
C26_Witness ==
    /\ last.op = "release" /\ last.ret = "False" /\ last.prior = "released"
    /\ total_released = 1
    /\ \E t \in Workers, n \in Numbers :
          /\ closed.released[n] = {t}
          /\ \A m \in Numbers \ {n} : closed.released[m] = {}
          /\ \E i \in DOMAIN phones :
                phones[i].number = n /\ phones[i].used_count = 1

\* C27: a valid release sends the provisioner exactly one terminal status for
\* the resource's external_ref, COMPLETE (6) when success is true and
\* CANCEL (8) when it is false; and once a release has sent a terminal status
\* for a resource, no later acquire leases that resource or sends READY (1)
\* for it.
C27_TerminalStatusIsFinal ==
    [][/\ \A t \in Workers, n \in Numbers, s \in BOOLEAN :
             (last'.op = "release" /\ release_phone(t, n, s) /\ HeldBy(phones, n, t)) =>
                /\ last'.status_code = (IF s THEN STATUS_COMPLETE ELSE STATUS_CANCEL)
                /\ last'.locked_calls = 1
       /\ \A t \in Workers :
             (/\ last'.op = "acquire"
              /\ acquire_phone(t)
              /\ last'.requests = 0
              /\ last'.ret \in Numbers) =>
                closed.released[last'.ret] = {}]_vars

\* C28: the timeout sweep changes only expired leases.  Across an acquire
\* iteration of the static pool (sweep, scan, lock) a lease whose age is at
\* most the timeout is never force-freed, and every free, exhausted or
\* non-expired leased resource keeps its holder, leased_at and usage_count;
\* the only other change is the iteration's own lease of a free, non-exhausted
\* resource.
C28_SweepChangesOnlyExpired ==
    [][\A t \in Workers :
          (last'.op = "acquire" /\ base_acquire_phone(t)) =>
             /\ DOMAIN phones' = DOMAIN phones
             /\ \A i \in DOMAIN phones :
                   ~Expired(phones[i]) =>
                      \/ phones'[i] = phones[i]
                      \/ /\ phones[i].locked_by = None
                         /\ phones[i].used_count < max_uses
                         /\ phones'[i] = [phones[i] EXCEPT !.locked_by = t,
                                                           !.locked_at = now]]_vars

\* A sweep that freed an expired lease and kept a lease whose age is exactly
\* the timeout.
C28_Witness ==
    /\ last.op = "acquire" /\ last.notified
    /\ \E i \in DOMAIN phones :
          /\ phones[i].locked_by # None
          /\ now - phones[i].locked_at = Timeout

\* C29: after every step total_released <= total_acquired, and total_acquired
\* minus total_released equals the number of resources leased now plus the
\* number of leases the timeout sweep has ended so far; and total_acquired
\* counts the acquire calls that returned a resource: a step adds 1 to it
\* exactly when it is an acquire that returns a resource.
C29_CountersBalance ==
    [][/\ total_released' <= total_acquired'
       /\ total_acquired' - total_released' =
             Cardinality(Leased(phones')) + closed'.reclaims
       /\ total_acquired' = total_acquired +
             (IF last'.op = "acquire" /\ last'.ret \in Numbers THEN 1 ELSE 0)]_vars

\* C30: in every reachable state, for every configured max_uses, the counts
\* of stats() partition the table: total = available + leased + exhausted,
\* where available is the number of resources with no holder and
\* usage_count < max_uses and exhausted the number of resources with
\* usage_count = max_uses.
C30_StatsPartitionTheTable ==
    LET st == get_stats(phones, total_acquired, total_released)
    IN  /\ st.total_phones = st.available + st.locked + st.exhausted
        /\ st.available = Cardinality(Available(phones))
        /\ st.exhausted =
              Cardinality({i \in DOMAIN phones : phones[i].used_count = max_uses})

\* C31: a successful acquire returns the first resource in table order with
\* usage_count < max_uses and no holder, whichever requester arrived first:
\* the returned resource is not exhausted, no resource before it in the table
\* is left free and usable, it gets the caller as holder and now as
\* leased_at, and (when the iteration bought nothing) every other resource
\* that was not an expired lease is unchanged.
C31_ScanReturnsFirstUsable ==
    [][\A t \in Workers :
          (/\ last'.op = "acquire"
           /\ acquire_phone(t) \/ base_acquire_phone(t)
           /\ last'.ret \in Numbers) =>
             LET k == IndexOf(phones', last'.ret)
             IN  /\ phones'[k].used_count < max_uses
                 /\ phones'[k].locked_by = t
                 /\ phones'[k].locked_at = now
                 /\ \A j \in DOMAIN phones' :
                       j < k => ~(/\ phones'[j].locked_by = None
                                  /\ phones'[j].used_count < max_uses)
                 /\ last'.requests = 0 =>
                       \A i \in DOMAIN phones :
                          (i # k /\ ~Expired(phones[i])) => phones'[i] = phones[i]]_vars

\* C32: a provisioner failure of the READY (1) status push during acquire (an
\* error result or an exception of set_status) does not fail the acquire: the
\* resource is returned to the caller, with the caller as holder, now as
\* leased_at, and total_acquired incremented by 1.
C32_AcquireSurvivesPushFailure ==
    [][\A t \in Workers :
          (/\ last'.op = "acquire"
           /\ acquire_phone(t)
           /\ last'.status_code = STATUS_READY
           /\ last'.status_reply \in {"error", "raise"}) =>
             /\ last'.ret \in Numbers
             /\ pc'[t] = "idle"
             /\ total_acquired' = total_acquired + 1
             /\ \E i \in DOMAIN phones' :
                   /\ phones'[i].number = last'.ret
                   /\ phones'[i].locked_by = t
                   /\ phones'[i].locked_at = now]_vars

C32_Witness ==
    /\ last.op = "acquire" /\ last.status_code = STATUS_READY
    /\ last.status_reply = "raise"
    /\ last.ret \in Numbers
    /\ total_acquired = 1
    /\ \E i \in DOMAIN phones :
          phones[i].number = last.ret /\ phones[i].locked_by \in Workers

\* C33: in main_flow every successful acquire is followed by exactly one
\* release_phone call for that resource by the same requester on every exit
\* path, with success = True only if the phone verification succeeded, and
\* get_sms_code is called, if at all, between the acquire and that release.
C33_OneReleasePerAcquire ==
    \A t \in Workers :
       LET f == flow[t]
       IN  /\ f.releases <= 1
           /\ f.phone = None => f.releases = 0 /\ f.codes = 0
           /\ f.at # "done" => f.releases = 0
           /\ (f.at = "done" /\ f.phone # None) =>
                 /\ f.releases = 1
                 /\ f.released.number = f.phone
                 /\ f.released.by = t
                 /\ f.released.success => f.verified
           /\ pc[t] = "polling" => f.phone # None /\ f.releases = 0

\* A flow that ended after get_sms_code returned no code: one release, with
\* success = False.
C33_Witness ==
    \E t \in Workers :
       /\ flow[t].at = "done" /\ flow[t].phone # None
       /\ flow[t].codes = 1 /\ ~flow[t].verified
       /\ flow[t].releases = 1 /\ ~flow[t].released.success

\* A flow that ended after a successful verification.
C33_WitnessVerified ==
    \E t \in Workers :
       /\ flow[t].at = "done" /\ flow[t].verified
       /\ flow[t].releases = 1 /\ flow[t].released.success

\* C34: get_sms_code never mutates the pool: the table (holder, leased_at,
\* usage_count, contents) and the counters are unchanged by the call and by
\* each of its polls, whatever it returns; and for a resource id that is not
\* in the table, or a resource without activation_id, it returns None without
\* polling the provisioner.
C34_GetCodeReadsOnly ==
    [][/\ \A t \in Workers, n \in Callable, mr \in MaxRetriesChoices :
             (last'.op = "get_code" /\ get_sms_code(t, n, mr)) =>
                /\ UNCHANGED <<phones, total_acquired, total_released, leases>>
                /\ (\/ ~InTable(phones, n)
                    \/ phones[IndexOf(phones, n)].activation_id = NoActivation) =>
                      /\ last'.ret = None
                      /\ last'.locked_calls = 0
                      /\ pc'[t] = "idle"
                      /\ frame'[t] = NoFrame
       /\ \A t \in Workers :
             (last'.op = "poll" /\ get_sms_code_poll(t)) =>
                UNCHANGED <<phones, total_acquired, total_released, leases>>]_vars

\* get_sms_code has just returned None for a leased resource that has no
\* activation_id.
C34_Witness ==
    /\ last.op = "get_code" /\ last.ret = None /\ last.lookup = "bare"
    /\ \E i \in DOMAIN phones :
          phones[i].activation_id = NoActivation /\ phones[i].locked_by # None
    /\ \A t \in Workers : pc[t] # "polling"

\* get_sms_code has just returned None for a number that is not in the table.
C34_WitnessUnknown ==
    /\ last.op = "get_code" /\ last.ret = None /\ last.lookup = "unknown"
    /\ phones # <<>>

====
